---- MODULE Spec2Model ----
(***************************************************************************)
(* A model of the PvPArena plugin (pvp_arena.py): the duel registry, the   *)
(* snapshot store, the boss-bar handles, the win and rating scoreboards,   *)
(* the pending-challenge directory, and the host's scheduler queue.        *)
(* Every event handler and every scheduled callback is one atomic action:  *)
(* the host delivers them on a single tick sequence.                       *)
(***************************************************************************)
EXTENDS Integers, Sequences, FiniteSets, TLC

\* ------------------------------------------------------------------ bounds
\* Environment budgets: how many challenges are sent, how many death
\* signals are delivered and how many players disconnect in one behaviour.
MaxChallenges == 1
MaxDeaths == 1
MaxQuits == 1
\* The challenges sent where duels follow one another or run side by side.
MaxRematches == 2
\* Ratings the scoreboard may hold when the plugin starts: 0..MaxRating.
MaxRating == 2000

\* ------------------------------------------------------- program constants
DefaultElo == 1000
KFactor == 32
RetryBudget == 5
\* A score whose is_score_set is false.
Unset == -1

\* ------------------------------------------------------------------ values
Players == {"A", "B", "C", "D"}
None == "none"
NoItem == "none"
Arena == "arena"
Home == "home"
NoBar == 0
\* No entry in _inventories (a saved list always has the inventory's slots).
NoSnap == <<>>
BarIds == 1..Cardinality(Players)

\* What a player carries before any duel, and what the player carries after
\* fighting in the arena (an item used up, another picked up).
HomeInventory == <<"sword", NoItem>>
ArenaInventory == <<NoItem, "apple">>

\* Every content of the inventory's slots (some empty), and the places a
\* player may be at before a duel.
Inventories ==
    {<<a, b>> : a \in {"sword", "apple", NoItem}, b \in {"sword", "apple", NoItem}}
Camp == "camp"
Places == {Home, Camp}

VARIABLES
    pending,        \* _pending: target name -> list of challenger names
    duels,          \* _duels: player id -> opponent id (None: no key)
    inventories,    \* _inventories: player id -> saved contents (NoSnap: no key)
    locations,      \* _locations: player id -> saved location (None: no key)
    bars,           \* _bars: player id -> boss bar handle (NoBar: no key)
    barObj,         \* the boss bars: the players attached, is_visible
    wins,           \* objective pvp_wins, by player entry
    elo,            \* objective elo_rating, by player entry
    eloName,        \* objective elo_rating, by name (string) entry
    keepInventory,  \* the keepinventory gamerule
    online,         \* the connected players
    avail,          \* the connected players server.get_player resolves
    inv,            \* each player's live inventory contents
    loc,            \* each player's live location
    healthy,        \* each player's health = max_health
    tasks,          \* the scheduler queue, in scheduling order
    last,           \* the last handler run and what it logged
    cast,           \* the players that take part in the behaviour
    chalLeft, deathsLeft, quitsLeft   \* the environment's remaining budgets

vars == <<pending, duels, inventories, locations, bars, barObj, wins, elo,
          eloName, keepInventory, online, avail, inv, loc, healthy, tasks,
          last, cast, chalLeft, deathsLeft, quitsLeft>>

\* ----------------------------------------------------------------- helpers
\* server.get_player(id): the live handle, or None.
GetPlayer(p) == IF p \in avail THEN p ELSE None

\* list.remove(x): drop the first occurrence of x.
RECURSIVE RemoveFirst(_, _)
RemoveFirst(s, x) ==
    IF s = <<>> THEN <<>>
    ELSE IF Head(s) = x THEN Tail(s)
    ELSE <<Head(s)>> \o RemoveFirst(Tail(s), x)

\* The keys of a map held as a total function with a "no key" value.
Keys(m, absent) == {p \in DOMAIN m : m[p] # absent}

\* ------------------------------------------------------------- rating
\* round(32 * (1 - 1 / (1 + 10 ** (d / 400)))) for d = l_old - w_old is a
\* step function of d; EloSteps lists, for n = 1..32, the least d at which
\* it reaches n (tabulated from the floating-point expression of
\* _update_elo; w_old and l_old are integers, so the rounding of
\* w_old + gain and of l_old - gain is the rounding of the gain).
EloSteps ==
    <<-719, -523, -428, -364, -314, -273, -237, -205, -176, -149, -124,
      -100, -77, -54, -32, -10, 11, 33, 55, 78, 101, 125, 150, 177, 206,
      238, 274, 315, 365, 429, 524, 720>>

Gain(d) == Cardinality({n \in 1..KFactor : EloSteps[n] <= d})

\* l_old - round(l_old + 32 * (0 - expected_l)), the loser's side of
\* _update_elo, is rounded on its own; EloLossSteps lists, for n = 1..32,
\* the least d = l_old - w_old at which the loss reaches n (tabulated from
\* the loser's expression).
EloLossSteps ==
    <<-719, -523, -428, -364, -314, -273, -237, -205, -176, -149, -124,
      -100, -77, -54, -32, -10, 11, 33, 55, 78, 101, 125, 150, 177, 206,
      238, 274, 315, 365, 429, 524, 720>>

Loss(d) == Cardinality({n \in 1..KFactor : EloLossSteps[n] <= d})

\* A score that was never set read as 0.
RatedZero(v) == IF v = Unset THEN 0 ELSE v

\* score.value after "if not is_score_set: value = 1000".
Rated(v) == IF v = Unset THEN DefaultElo ELSE v

\* An update that takes the loser's loss from the winner's expected score
\* instead of the loser's: the loser loses k minus the winner's gain.
UpdateEloLoserByWinnerOdds(w, l) ==
    LET w_old == IF w = Unset THEN DefaultElo ELSE w
        l_old == IF l = Unset THEN DefaultElo ELSE l
    IN  <<w_old + Gain(l_old - w_old), l_old - (KFactor - Gain(l_old - w_old))>>

\* _update_elo on the two score values: <<w_new, l_new>>.
UpdateElo(w, l) ==
    LET w_old == Rated(w)
        l_old == Rated(l)
    IN  <<w_old + Gain(l_old - w_old), l_old - Loss(l_old - w_old)>>

\* ------------------------------------------------------------- snapshot
\* A _restore_inventory that counts the items it sets instead of using the
\* saved slot index: the items end up in the first slots.
RestoreInventoryCompacted(saved) ==
    LET items == SelectSeq(saved, LAMBDA x : x # NoItem)
    IN  [i \in DOMAIN saved |-> IF i <= Len(items) THEN items[i] ELSE NoItem]

\* _restore_inventory: clear(), then set_item(idx, item) for every saved
\* item that is not empty.
RestoreInventory(saved) ==
    LET cleared == [i \in DOMAIN saved |-> NoItem]
    IN  [i \in DOMAIN saved |-> IF saved[i] # NoItem THEN saved[i] ELSE cleared[i]]

\* A _restore_inventory without the clear(): the items picked up since the
\* snapshot stay in the slots the snapshot has empty.
RestoredNoClear(snap, p) ==
    IF snap[p] # NoSnap
    THEN [i \in DOMAIN snap[p] |->
             IF snap[p][i] # NoItem THEN snap[p][i] ELSE inv[p][i]]
    ELSE inv[p]

\* The live inventory after _restore_inventory(p) under snapshot map snap.
Restored(snap, p) ==
    IF snap[p] # NoSnap THEN RestoreInventory(snap[p]) ELSE inv[p]

\* ------------------------------------------------------------- boss bars
\* A new handle from create_boss_bar: one no entry of _bars refers to.
NewBar(b) == CHOOSE i \in BarIds :
                /\ \A p \in Players : b[p] # i
                /\ \A j \in BarIds : (\A p \in Players : b[p] # j) => i <= j

\* A bar after remove_all with is_visible = False; also a handle not yet
\* created.
DeadBar == [players |-> {}, visible |-> FALSE]

\* ------------------------------------------------------------- world rule
\* "if len(self._duels) == 2: keepinventory true" in _start_duel.
KeepAfterStart(d) ==
    IF Cardinality(Keys(d, None)) = 2 THEN TRUE ELSE keepInventory

\* An end of duel that turns the rule off without looking at the registry.
KeepOffAfterEnd(d) == FALSE

\* "if not self._duels: keepinventory false" in _end_duel and
\* _end_duel_disconnect.
KeepAfterEnd(d) ==
    IF Keys(d, None) = {} THEN FALSE ELSE keepInventory

\* ------------------------------------------------------------- scheduler
\* A retry that is rescheduled with a full budget instead of remaining - 1.
RetryTaskRefilled(w, l, rem) ==
    [kind |-> "retry", p |-> w, q |-> l, rem |-> RetryBudget, loc |-> None,
     stale |-> FALSE]

\* scheduler.run_task(..., delay=2) of _retry_end_duel(w, l, rem).
RetryTask(w, l, rem) ==
    [kind |-> "retry", p |-> w, q |-> l, rem |-> rem, loc |-> None, stale |-> FALSE]

\* scheduler.run_task(..., delay=40) of finish_restore(player, location);
\* stale: the captured player handle is of a connection that has ended.
RestoreTask(p, l) ==
    [kind |-> "restore", p |-> p, q |-> None, rem |-> 0, loc |-> l, stale |-> FALSE]

\* The queue without its i-th task.
Without(q, i) == SubSeq(q, 1, i - 1) \o SubSeq(q, i + 1, Len(q))

\* A task may run when every task that must run before it has run: all
\* retries have the same delay (2 ticks) and so run in scheduling order; a
\* restore (40 ticks) runs after every task scheduled before it.
Runnable(i) ==
    /\ i \in 1..Len(tasks)
    /\ IF tasks[i].kind = "retry"
       THEN \A j \in 1..(i - 1) : tasks[j].kind # "retry"
       ELSE i = 1

\* What the handler run last did: its name, its arguments, its log line.
Did(op, p, q, did) == [op |-> op, p |-> p, q |-> q, did |-> did]

\* --------------------------------------------------------------- _start_duel
\* _update_bar(p1, p2): the entries of _bars.
BarsAfterUpdate(p1, p2) ==
    IF bars[p1] = NoBar
    THEN [bars EXCEPT ![p1] = NewBar(bars), ![p2] = NewBar(bars)]
    ELSE bars

\* _update_bar(p1, p2): the bars themselves.
BarObjAfterUpdate(p1, p2) ==
    IF bars[p1] = NoBar
    THEN [barObj EXCEPT ![NewBar(bars)] = [players |-> {p1, p2}, visible |-> TRUE]]
    ELSE [barObj EXCEPT ![bars[p1]].visible = TRUE]

\* self._duels[p1] = p2; self._duels[p2] = p1
DuelsAfterStart(p1, p2) == [duels EXCEPT ![p1] = p2, ![p2] = p1]

\* _start_duel(p1, p2), _reset_round(p1, p2) included.
StartDuel(p1, p2) ==
    /\ inventories' = [inventories EXCEPT ![p1] = inv[p1], ![p2] = inv[p2]]
    /\ locations' = [locations EXCEPT ![p1] = loc[p1], ![p2] = loc[p2]]
    /\ duels' = DuelsAfterStart(p1, p2)
    /\ keepInventory' = KeepAfterStart(DuelsAfterStart(p1, p2))
    /\ inv' = [inv EXCEPT ![p1] = RestoreInventory(inv[p1]),
                          ![p2] = RestoreInventory(inv[p2])]
    /\ healthy' = [healthy EXCEPT ![p1] = TRUE, ![p2] = TRUE]
    /\ loc' = [loc EXCEPT ![p1] = Arena, ![p2] = Arena]
    /\ bars' = BarsAfterUpdate(p1, p2)
    /\ barObj' = BarObjAfterUpdate(p1, p2)

\* ----------------------------------------------------------------- _end_duel
\* score = obj.get_score(winner); score.value = score.value + 1
WinsAfterWin(w) == [wins EXCEPT ![w] = @ + 1]

\* _update_elo(winner, loser) on the two players' entries.
EloAfterEnd(w, l) ==
    [elo EXCEPT ![w] = UpdateElo(elo[w], elo[l])[1],
                ![l] = UpdateElo(elo[w], elo[l])[2]]

\* self._bars.pop(winner), self._bars.pop(loser)
BarsAfterEnd(w, l) == [bars EXCEPT ![w] = NoBar, ![l] = NoBar]

\* The bar _end_duel destroys: the winner's, else the loser's.
BarOfPair(w, l) == IF bars[w] # NoBar THEN bars[w] ELSE bars[l]

\* An end of duel that forgets the bar without destroying it.
BarObjKept(w, l) == barObj

\* remove_player, is_visible = False, remove_all on that bar.
BarObjAfterEnd(w, l) ==
    IF BarOfPair(w, l) # NoBar
    THEN [barObj EXCEPT ![BarOfPair(w, l)] = DeadBar]
    ELSE barObj

\* self._duels.pop(p) for the winner and the loser.
DuelsAfterEnd(w, l) == [duels EXCEPT ![w] = None, ![l] = None]

\* _end_duel(winner, loser) with two live handles; q is the scheduler queue
\* the two finish_restore tasks are added to.
EndDuel(w, l, q) ==
    /\ wins' = WinsAfterWin(w)
    /\ elo' = EloAfterEnd(w, l)
    /\ bars' = BarsAfterEnd(w, l)
    /\ barObj' = BarObjAfterEnd(w, l)
    /\ inv' = [inv EXCEPT ![w] = Restored(inventories, w),
                          ![l] = Restored(inventories, l)]
    /\ inventories' = [inventories EXCEPT ![w] = NoSnap, ![l] = NoSnap]
    /\ locations' = [locations EXCEPT ![w] = None, ![l] = None]
    /\ tasks' = q \o <<RestoreTask(w, locations[w]), RestoreTask(l, locations[l])>>
    /\ duels' = DuelsAfterEnd(w, l)
    /\ keepInventory' = KeepAfterEnd(DuelsAfterEnd(w, l))
    /\ UNCHANGED <<eloName, loc, healthy>>

\* ------------------------------------------------------ _end_duel_disconnect
\* self._bars.pop(winner); if that gave no bar, self._bars.pop(loser_id).
BarsAfterForfeit(w, l, b) ==
    IF b[w] # NoBar THEN [b EXCEPT ![w] = NoBar]
    ELSE [b EXCEPT ![l] = NoBar]

\* The bar _end_duel_disconnect destroys, if any.
BarObjAfterForfeit(w, l, b) ==
    LET bar == IF b[w] # NoBar THEN b[w] ELSE b[l]
    IN  IF bar # NoBar THEN [barObj EXCEPT ![bar] = DeadBar] ELSE barObj

\* _update_elo(winner, loser_name): the winner's score is the player's
\* entry, the loser's score is the entry of the name string.
EloAfterForfeit(w, l) == [elo EXCEPT ![w] = UpdateElo(elo[w], eloName[l])[1]]
EloNameAfterForfeit(w, l) ==
    [eloName EXCEPT ![l] = UpdateElo(elo[w], eloName[l])[2]]

\* _end_duel_disconnect(winner, loser_offline), called by the quit handler
\* with the registry d and the bar entries b it has already popped from.
EndDuelDisconnect(w, l, d, b) ==
    /\ wins' = WinsAfterWin(w)
    /\ elo' = EloAfterForfeit(w, l)
    /\ eloName' = EloNameAfterForfeit(w, l)
    /\ bars' = BarsAfterForfeit(w, l, b)
    /\ barObj' = BarObjAfterForfeit(w, l, b)
    /\ inv' = [inv EXCEPT ![w] = Restored(inventories, w)]
    /\ inventories' = [inventories EXCEPT ![w] = NoSnap]
    /\ locations' = [locations EXCEPT ![w] = None]
    /\ loc' = [loc EXCEPT ![w] = IF locations[w] # None THEN locations[w] ELSE @]
    /\ healthy' = [healthy EXCEPT ![w] = TRUE]
    /\ duels' = [d EXCEPT ![w] = None, ![l] = None]
    /\ keepInventory' = KeepAfterEnd([d EXCEPT ![w] = None, ![l] = None])

\* ------------------------------------------------------------ death signals
\* A death handler that takes the killer's word without looking the pair
\* up in the registry.
HandlePlayerDeathUnchecked(v, k) ==
    IF k # None
    THEN <<k, v>>
    ELSE IF duels[v] # None /\ GetPlayer(duels[v]) # None
         THEN <<duels[v], v>>
         ELSE <<>>

\* _handle_player_death: the resolution it schedules, <<winner, loser>>, or
\* <<>> when it schedules none.
HandlePlayerDeath(v, k) ==
    IF k # None
    THEN IF duels[k] = v THEN <<k, v>> ELSE <<>>
    ELSE IF duels[v] # None /\ GetPlayer(duels[v]) # None
         THEN <<duels[v], v>>
         ELSE <<>>

\* _handle_actor_death: the same decision on the actor event's data.
HandleActorDeath(v, k) ==
    IF k # None
    THEN IF duels[k] = v THEN <<k, v>> ELSE <<>>
    ELSE IF duels[v] # None /\ GetPlayer(duels[v]) # None
         THEN <<duels[v], v>>
         ELSE <<>>

\* The scheduler queue after a death handler's decision r.
Scheduled(r) ==
    IF r = <<>> THEN tasks ELSE Append(tasks, RetryTask(r[1], r[2], RetryBudget))

\* The log line of a death handler's decision on v's death with killer k.
DeathLog(r, v, k) ==
    IF r # <<>> THEN "scheduled"
    ELSE IF k # None THEN "mismatch"
    ELSE IF duels[v] # None THEN "offline"
    ELSE "none"

\* ------------------------------------------------------------------- state
\* The state after __init__ and on_enable, with the players of c connected,
\* at home, and the environment's budgets nc, nd, nq.
InitWith(c, nc, nd, nq) ==
    /\ pending = [p \in Players |-> <<>>]
    /\ duels = [p \in Players |-> None]
    /\ inventories = [p \in Players |-> NoSnap]
    /\ locations = [p \in Players |-> None]
    /\ bars = [p \in Players |-> NoBar]
    /\ barObj = [i \in BarIds |-> DeadBar]
    /\ wins = [p \in Players |-> 0]
    /\ elo = [p \in Players |-> Unset]
    /\ eloName = [p \in Players |-> Unset]
    /\ keepInventory = FALSE
    /\ cast = c
    /\ online = c
    /\ avail = c
    /\ inv = [p \in Players |-> HomeInventory]
    /\ loc = [p \in Players |-> Home]
    /\ healthy = [p \in Players |-> TRUE]
    /\ tasks = <<>>
    /\ last = Did("init", None, None, "none")
    /\ chalLeft = nc
    /\ deathsLeft = nd
    /\ quitsLeft = nq

Init == InitWith({"A", "B"}, MaxChallenges, MaxDeaths, MaxQuits)

\* ----------------------------------------------------------------- actions
\* _show_player_list's submit handler: player c challenges target t.
Challenge(c, t) ==
    /\ chalLeft > 0
    /\ c \in avail /\ t \in avail /\ c # t
    /\ pending' = [pending EXCEPT ![t] = Append(@, c)]
    /\ chalLeft' = chalLeft - 1
    /\ last' = Did("challenge", c, t, "sent")
    /\ UNCHANGED <<duels, inventories, locations, bars, barObj, wins, elo,
                   eloName, keepInventory, online, avail, inv, loc, healthy,
                   tasks, deathsLeft, quitsLeft, cast>>

\* _show_pending and its submit handler: player p accepts the i-th of the
\* pending challengers that resolve to a live player.
Accept(p, i) ==
    LET requests == SelectSeq(pending[p], LAMBDA n : GetPlayer(n) # None)
    IN  /\ p \in avail
        /\ i \in 1..Len(requests)
        /\ pending' = [pending EXCEPT ![p] = RemoveFirst(@, requests[i])]
        /\ StartDuel(requests[i], p)
        /\ last' = Did("accept", requests[i], p, "start_duel")
        /\ UNCHANGED <<wins, elo, eloName, online, avail, tasks,
                       chalLeft, deathsLeft, quitsLeft, cast>>

\* on_player_death: the primary death signal of victim v with killer k
\* (None: no player killer). gone: the host stops resolving the dead
\* player's handle until the player respawns.
PlayerDeath(v, k, gone) ==
    /\ deathsLeft > 0
    /\ v \in online
    /\ k \in (avail \ {v}) \cup {None}
    /\ tasks' = Scheduled(HandlePlayerDeath(v, k))
    /\ healthy' = [healthy EXCEPT ![v] = FALSE]
    /\ avail' = IF gone THEN avail \ {v} ELSE avail
    /\ deathsLeft' = deathsLeft - 1
    /\ last' = Did("player_death", v, k, DeathLog(HandlePlayerDeath(v, k), v, k))
    /\ UNCHANGED <<pending, duels, inventories, locations, bars, barObj, wins,
                   elo, eloName, keepInventory, online, inv, loc, chalLeft,
                   quitsLeft, cast>>

\* on_actor_death for a player actor: the fallback death signal.
\* isPlayerEvent: the event is the PlayerDeathEvent that on_player_death has
\* just handled, now delivered to this handler too, which runs
\* _handle_player_death on it again. Otherwise the death is delivered as an
\* ActorDeathEvent only, and _handle_actor_death handles it.
ActorDeath(v, k, isPlayerEvent, gone) ==
    LET r == IF isPlayerEvent THEN HandlePlayerDeath(v, k)
             ELSE HandleActorDeath(v, k)
    IN  /\ v \in online
        /\ tasks' = Scheduled(r)
        /\ IF isPlayerEvent
           THEN /\ last.op = "player_death" /\ last.p = v /\ last.q = k
                /\ ~gone
                /\ UNCHANGED <<healthy, avail, deathsLeft>>
           ELSE /\ deathsLeft > 0
                /\ k \in (avail \ {v}) \cup {None}
                /\ healthy' = [healthy EXCEPT ![v] = FALSE]
                /\ avail' = IF gone THEN avail \ {v} ELSE avail
                /\ deathsLeft' = deathsLeft - 1
        /\ last' = Did(IF isPlayerEvent THEN "actor_death" ELSE "actor_death_only",
                       v, k, DeathLog(r, v, k))
        /\ UNCHANGED <<pending, duels, inventories, locations, bars, barObj,
                       wins, elo, eloName, keepInventory, online, inv, loc,
                       chalLeft, quitsLeft, cast>>

\* The host: a dead player respawns and resolves again.
Respawn(p) ==
    /\ p \in online \ avail
    /\ avail' = avail \cup {p}
    /\ healthy' = [healthy EXCEPT ![p] = TRUE]
    /\ last' = Did("respawn", p, None, "none")
    /\ UNCHANGED <<pending, duels, inventories, locations, bars, barObj, wins,
                   elo, eloName, keepInventory, online, inv, loc, tasks,
                   chalLeft, deathsLeft, quitsLeft, cast>>

\* The world: a player in the arena fights (uses up an item, picks up
\* another).
Fight(p) ==
    /\ p \in avail
    /\ loc[p] = Arena
    /\ inv[p] # ArenaInventory
    /\ inv' = [inv EXCEPT ![p] = ArenaInventory]
    /\ last' = Did("fight", p, None, "none")
    /\ UNCHANGED <<pending, duels, inventories, locations, bars, barObj, wins,
                   elo, eloName, keepInventory, online, avail, loc, healthy,
                   tasks, chalLeft, deathsLeft, quitsLeft, cast>>

\* _retry_end_duel(win_id, los_id, remaining) run by the scheduler: attempt().
RunRetry(i) ==
    LET t == tasks[i]
        q == Without(tasks, i)
    IN  /\ Runnable(i)
        /\ t.kind = "retry"
        /\ IF GetPlayer(t.p) # None /\ GetPlayer(t.q) # None
           THEN /\ EndDuel(t.p, t.q, q)
                /\ last' = Did("retry", t.p, t.q, "end_duel")
           ELSE /\ tasks' = IF t.rem > 0
                            THEN Append(q, RetryTask(t.p, t.q, t.rem - 1))
                            ELSE q
                /\ last' = Did("retry", t.p, t.q,
                               IF t.rem > 0 THEN "retrying" ELSE "abandoned")
                /\ UNCHANGED <<duels, inventories, locations, bars, barObj,
                               wins, elo, eloName, keepInventory, inv, loc,
                               healthy>>
        /\ UNCHANGED <<pending, online, avail, chalLeft, deathsLeft, quitsLeft, cast>>

\* finish_restore(player, location) run by the scheduler. A stale handle
\* reaches no connected player.
RunRestore ==
    /\ Runnable(1)
    /\ tasks[1].kind = "restore"
    /\ tasks' = Tail(tasks)
    /\ IF tasks[1].stale
       THEN /\ UNCHANGED <<loc, healthy>>
            /\ last' = Did("restore", tasks[1].p, None, "stale")
       ELSE /\ loc' = [loc EXCEPT ![tasks[1].p] =
                            IF tasks[1].loc # None THEN tasks[1].loc ELSE @]
            /\ healthy' = [healthy EXCEPT ![tasks[1].p] = TRUE]
            /\ last' = Did("restore", tasks[1].p, None,
                           IF tasks[1].loc # None THEN "teleported" ELSE "healed")
    /\ UNCHANGED <<pending, duels, inventories, locations, bars, barObj, wins,
                   elo, eloName, keepInventory, online, avail, inv,
                   chalLeft, deathsLeft, quitsLeft, cast>>

\* The scheduler queue after player p's connection ends: the handles that
\* finish_restore tasks captured for p are no longer live.
Disconnected(q, p) ==
    [i \in DOMAIN q |->
        IF q[i].kind = "restore" /\ q[i].p = p THEN [q[i] EXCEPT !.stale = TRUE]
        ELSE q[i]]

\* _handle_player_quit for the leaving player p.
Quit(p) ==
    LET opp == duels[p]
        d1 == [duels EXCEPT ![p] = None]
        b1 == [bars EXCEPT ![p] = NoBar]
    IN  /\ quitsLeft > 0
        /\ p \in online
        /\ IF opp = None
           THEN /\ duels' = d1
                /\ bars' = b1
                /\ last' = Did("quit", p, None, "none")
                /\ UNCHANGED <<barObj, inventories, locations, wins, elo, eloName,
                               keepInventory, inv, loc, healthy>>
           ELSE IF GetPlayer(opp) # None
           THEN /\ EndDuelDisconnect(opp, p, [d1 EXCEPT ![opp] = None], b1)
                /\ last' = Did("quit", p, opp, "end_duel_disconnect")
           ELSE /\ duels' = [d1 EXCEPT ![opp] = None]
                /\ bars' = b1
                /\ last' = Did("quit", p, opp, "both_offline")
                /\ UNCHANGED <<barObj, inventories, locations, wins, elo, eloName,
                               keepInventory, inv, loc, healthy>>
        /\ online' = online \ {p}
        /\ avail' = avail \ {p}
        /\ tasks' = Disconnected(tasks, p)
        /\ quitsLeft' = quitsLeft - 1
        /\ UNCHANGED <<pending, chalLeft, deathsLeft, cast>>

\* _handle_player_join for the joining player p.
Join(p) ==
    /\ p \in cast \ online
    /\ online' = online \cup {p}
    /\ avail' = avail \cup {p}
    /\ IF inventories[p] # NoSnap
       THEN /\ inv' = [inv EXCEPT ![p] = Restored(inventories, p)]
            /\ loc' = [loc EXCEPT ![p] = IF locations[p] # None THEN locations[p] ELSE @]
            /\ locations' = [locations EXCEPT ![p] = None]
            /\ inventories' = [inventories EXCEPT ![p] = NoSnap]
            /\ healthy' = [healthy EXCEPT ![p] = TRUE]
            /\ last' = Did("join", p, None, "restored")
       ELSE /\ last' = Did("join", p, None, "none")
            /\ UNCHANGED <<inv, loc, locations, inventories, healthy>>
    /\ UNCHANGED <<pending, duels, bars, barObj, wins, elo, eloName,
                   keepInventory, tasks, chalLeft, deathsLeft, quitsLeft, cast>>

\* A forceend that does not look whether the opponent resolves.
ForceEndUnchecked(p) ==
    /\ p \in avail
    /\ IF duels[p] = None
       THEN /\ last' = Did("forceend", p, None, "not_in_duel")
            /\ UNCHANGED <<duels, inventories, locations, bars, barObj, wins,
                           elo, eloName, keepInventory, inv, loc, healthy, tasks>>
       ELSE /\ EndDuel(p, duels[p], tasks)
            /\ last' = Did("forceend", p, duels[p], "end_duel")
    /\ UNCHANGED <<pending, online, avail, chalLeft, deathsLeft, quitsLeft, cast>>

\* on_command "forceend" sent by player p.
ForceEnd(p) ==
    /\ p \in avail
    /\ IF duels[p] = None
       THEN /\ last' = Did("forceend", p, None, "not_in_duel")
            /\ UNCHANGED <<duels, inventories, locations, bars, barObj, wins,
                           elo, eloName, keepInventory, inv, loc, healthy, tasks>>
       ELSE IF GetPlayer(duels[p]) = None
       THEN /\ last' = Did("forceend", p, duels[p], "opponent_offline")
            /\ UNCHANGED <<duels, inventories, locations, bars, barObj, wins,
                           elo, eloName, keepInventory, inv, loc, healthy, tasks>>
       ELSE /\ EndDuel(p, duels[p], tasks)
            /\ last' = Did("forceend", p, duels[p], "end_duel")
    /\ UNCHANGED <<pending, online, avail, chalLeft, deathsLeft, quitsLeft, cast>>

Next ==
    \/ \E c, t \in Players : Challenge(c, t)
    \/ \E p \in Players : \E i \in 1..Len(pending[p]) : Accept(p, i)
    \/ \E v \in Players : \E k \in Players \cup {None} : \E gone \in BOOLEAN :
          PlayerDeath(v, k, gone)
    \/ \E v \in Players : \E k \in Players \cup {None} :
       \E isPlayerEvent, gone \in BOOLEAN : ActorDeath(v, k, isPlayerEvent, gone)
    \/ \E p \in Players : Respawn(p)
    \/ \E p \in Players : Fight(p)
    \/ \E i \in 1..Len(tasks) : RunRetry(i)
    \/ RunRestore
    \/ \E p \in Players : Quit(p)
    \/ \E p \in Players : Join(p)
    \/ \E p \in Players : ForceEnd(p)

Spec == Init /\ [][Next]_vars

\* Three players whose duels follow one another: challenges, acceptances,
\* fights, forced ends and the delayed restores, with no death and no quit.
InitRematch == InitWith({"A", "B", "C"}, MaxRematches, 0, 0)

NextRematch ==
    \/ \E c, t \in Players : Challenge(c, t)
    \/ \E p \in Players : \E i \in 1..Len(pending[p]) : Accept(p, i)
    \/ \E p \in Players : Fight(p)
    \/ RunRestore
    \/ \E p \in Players : ForceEnd(p)

SpecRematch == InitRematch /\ [][NextRematch]_vars

\* Four players and two duels side by side, (A, B) and (C, D), each ended by
\* a kill, a quit or a forced end.
InitConcurrent == InitWith(Players, MaxRematches, MaxDeaths, MaxQuits)

NextConcurrent ==
    \/ \E ct \in {<<"A", "B">>, <<"C", "D">>} : Challenge(ct[1], ct[2])
    \/ \E p \in Players : \E i \in 1..Len(pending[p]) : Accept(p, i)
    \/ \E v \in Players : \E k \in Players : PlayerDeath(v, k, FALSE)
    \/ \E i \in 1..Len(tasks) : RunRetry(i)
    \/ RunRestore
    \/ \E p \in Players : Quit(p)
    \/ \E p \in Players : ForceEnd(p)

SpecConcurrent == InitConcurrent /\ [][NextConcurrent]_vars

\* The normal course of a duel, one duel at a time: a challenge between idle
\* players while no other challenge is outstanding, its acceptance, the fight, one primary death signal for a kill
\* by the opponent, the scheduled resolution and the delayed restores. Both
\* players stay connected and resolvable; the scheduler runs every task that
\* is due.
Quiet ==
    /\ \A p \in Players : duels[p] = None /\ pending[p] = <<>>
    /\ tasks = <<>>

InitNormal == InitWith({"A", "B", "C"}, MaxRematches, MaxRematches, 0)

NextNormal ==
    \/ \E c, t \in Players : Quiet /\ Challenge(c, t)
    \/ \E p \in Players : \E i \in 1..Len(pending[p]) : Accept(p, i)
    \/ \E p \in Players : duels[p] # None /\ Fight(p)
    \/ \E a, b \in Players : duels[a] = b /\ tasks = <<>> /\ PlayerDeath(b, a, FALSE)
    \/ \E i \in 1..Len(tasks) : RunRetry(i)
    \/ RunRestore

SpecNormal ==
    /\ InitNormal
    /\ [][NextNormal]_vars
    /\ WF_vars(\E i \in 1..Len(tasks) : RunRetry(i))
    /\ WF_vars(RunRestore)

\* Death signals among three players of whom two may be duelling: kills by
\* the opponent and by a bystander, deaths with no player killer, deaths of
\* both duellists, with the scheduled resolutions and restores.
InitDeaths == InitWith({"A", "B", "C"}, MaxChallenges, MaxRematches, 0)

NextDeaths ==
    \/ \E c, t \in Players : Challenge(c, t)
    \/ \E p \in Players : \E i \in 1..Len(pending[p]) : Accept(p, i)
    \/ \E v \in Players : \E k \in Players \cup {None} : \E gone \in BOOLEAN :
          PlayerDeath(v, k, gone)
    \/ \E v \in Players : \E k \in Players \cup {None} :
          \E isPlayerEvent, gone \in BOOLEAN : ActorDeath(v, k, isPlayerEvent, gone)
    \/ \E p \in Players : Respawn(p)
    \/ \E i \in 1..Len(tasks) : RunRetry(i)
    \/ RunRestore

SpecDeaths == InitDeaths /\ [][NextDeaths]_vars

\* Duels between two players whose elo_rating scores were left by earlier
\* runs of the server: A's is unset, 1000 or 1200, B's is unset or any value
\* in 0..MaxRating. Either player can be made the winner by forceend.
RatingsAtStart ==
    {[p \in Players |-> IF p = "A" THEN a ELSE IF p = "B" THEN b ELSE Unset] :
        a \in {Unset, DefaultElo, 1200}, b \in {Unset} \cup 0..MaxRating}

InitElo ==
    /\ pending = [p \in Players |-> <<>>]
    /\ duels = [p \in Players |-> None]
    /\ inventories = [p \in Players |-> NoSnap]
    /\ locations = [p \in Players |-> None]
    /\ bars = [p \in Players |-> NoBar]
    /\ barObj = [i \in BarIds |-> DeadBar]
    /\ wins = [p \in Players |-> 0]
    /\ elo \in RatingsAtStart
    /\ eloName = [p \in Players |-> Unset]
    /\ keepInventory = FALSE
    /\ cast = {"A", "B"}
    /\ online = {"A", "B"}
    /\ avail = {"A", "B"}
    /\ inv = [p \in Players |-> HomeInventory]
    /\ loc = [p \in Players |-> Home]
    /\ healthy = [p \in Players |-> TRUE]
    /\ tasks = <<>>
    /\ last = Did("init", None, None, "none")
    /\ chalLeft = MaxChallenges
    /\ deathsLeft = 0
    /\ quitsLeft = 0

NextElo ==
    \/ Challenge("A", "B")
    \/ \E i \in 1..Len(pending["B"]) : Accept("B", i)
    \/ \E p \in Players : ForceEnd(p)
    \/ RunRestore

SpecElo == InitElo /\ [][NextElo]_vars

\* Save and restore of a snapshot, for every inventory and place of the two
\* players: a duel is started between idle players with no other challenge
\* outstanding (save), the players fight, and the duel ends
\* by forceend (restore in _end_duel, then finish_restore) or by a quit
\* (restore of the winner in the quit handler, of the leaver on join). A
\* player who quits with nothing pending and joins again is a further
\* restore. No connection ends while a finish_restore is scheduled.
InitSnapshot ==
    /\ pending = [p \in Players |-> <<>>]
    /\ duels = [p \in Players |-> None]
    /\ inventories = [p \in Players |-> NoSnap]
    /\ locations = [p \in Players |-> None]
    /\ bars = [p \in Players |-> NoBar]
    /\ barObj = [i \in BarIds |-> DeadBar]
    /\ wins = [p \in Players |-> 0]
    /\ elo = [p \in Players |-> Unset]
    /\ eloName = [p \in Players |-> Unset]
    /\ keepInventory = FALSE
    /\ cast = {"A", "B"}
    /\ online = {"A", "B"}
    /\ avail = {"A", "B"}
    /\ inv \in {[p \in Players |-> IF p = "A" THEN a ELSE IF p = "B" THEN b
                                   ELSE HomeInventory] :
                   a \in Inventories, b \in Inventories}
    /\ loc \in {[p \in Players |-> IF p = "A" THEN a ELSE IF p = "B" THEN b
                                   ELSE Home] :
                   a \in Places, b \in Places}
    /\ healthy = [p \in Players |-> TRUE]
    /\ tasks = <<>>
    /\ last = Did("init", None, None, "none")
    /\ chalLeft = MaxChallenges
    /\ deathsLeft = 0
    /\ quitsLeft = MaxQuits

NextSnapshot ==
    \/ Quiet /\ Challenge("A", "B")
    \/ \E i \in 1..Len(pending["B"]) : Accept("B", i)
    \/ \E p \in Players : duels[p] # None /\ Fight(p)
    \/ \E p \in Players : ForceEnd(p)
    \/ RunRestore
    \/ \E p \in Players : tasks = <<>> /\ Quit(p)
    \/ \E p \in Players : Join(p)

SpecSnapshot == InitSnapshot /\ [][NextSnapshot]_vars

\* Every handler but the duplicated delivery of a death event to
\* on_actor_death: each death schedules at most one resolution.
NextStale ==
    \/ \E c, t \in Players : Challenge(c, t)
    \/ \E p \in Players : \E i \in 1..Len(pending[p]) : Accept(p, i)
    \/ \E v \in Players : \E k \in Players \cup {None} : \E gone \in BOOLEAN :
          PlayerDeath(v, k, gone)
    \/ \E v \in Players : \E k \in Players \cup {None} : \E gone \in BOOLEAN :
          ActorDeath(v, k, FALSE, gone)
    \/ \E p \in Players : Respawn(p)
    \/ \E p \in Players : Fight(p)
    \/ \E i \in 1..Len(tasks) : RunRetry(i)
    \/ RunRestore
    \/ \E p \in Players : Quit(p)
    \/ \E p \in Players : Join(p)
    \/ \E p \in Players : ForceEnd(p)

SpecStale == Init /\ [][NextStale]_vars

\* ==================================================================
\* The claims
\* ==================================================================
\* A step in which handler op ran (every handler writes last; a step that
\* leaves every variable as it was is no step).
Ran(op) == last'.op = op /\ vars' # vars

\* The step ran _end_duel(w, l), from a scheduled attempt or from forceend.
RanEndDuel(w, l) ==
    /\ vars' # vars
    /\ last'.op \in {"retry", "forceend"}
    /\ last'.p = w /\ last'.q = l /\ last'.did = "end_duel"

\* C1: the duel registry is symmetric in every reachable state: if
\* registry[a] = b then registry[b] = a.
C1_RegistrySymmetric ==
    \A a \in Players : duels[a] # None => duels[duels[a]] = a

\* C2: when the primary and the fallback death signal are both delivered for
\* one death, the resolution scheduled by the second signal, which runs
\* right after the first one has ended the duel, is a no-op: no win counter
\* and no rating changes.
C2_SingleAward ==
    [][\A w, l \in Players :
          (/\ last = Did("retry", w, l, "end_duel")
           /\ Ran("retry") /\ last'.p = w /\ last'.q = l)
          => (wins' = wins /\ elo' = elo /\ eloName' = eloName)]_vars

\* C3: an attempt of a scheduled resolution for (w, l) that runs when the
\* duel of w and l has been cleared through another path (a quit, a
\* forceend) changes no win counter, rating, registry entry, snapshot or
\* visual handle.
C3_StaleResolutionNoOp ==
    [][\A w, l \in Players :
          (/\ Ran("retry") /\ last'.p = w /\ last'.q = l
           /\ (duels[w] # l \/ duels[l] # w))
          => UNCHANGED <<wins, elo, eloName, duels, inventories, locations,
                         bars, barObj>>]_vars

\* C4: _end_duel(w, l) invoked a second time in sequence, for a pair its
\* first invocation has unpaired, leaves the winner's win counter and both
\* ratings as the first invocation left them.
C4_EndDuelIdempotent ==
    [][\A w, l \in Players :
          (/\ last.p = w /\ last.q = l /\ last.did = "end_duel"
           /\ duels[w] = None /\ duels[l] = None
           /\ RanEndDuel(w, l))
          => (wins'[w] = wins[w] /\ elo'[w] = elo[w] /\ elo'[l] = elo[l])]_vars

\* C5: in the normal course of a duel (a kills b in the only active duel,
\* both stay connected, nothing else happens), the resolution gives a one
\* more win, raises a's rating and lowers b's, and eventually a has exactly
\* one more win than at the kill, neither is a registry key, both snapshot
\* entries are consumed and both inventories are the pre-duel ones, both are
\* at their pre-duel location and healed, no bar is left, and the
\* keep-inventory rule is off.
C5_Restored(p) ==
    /\ duels[p] = None
    /\ inventories[p] = NoSnap /\ locations[p] = None
    /\ inv[p] = HomeInventory /\ loc[p] = Home /\ healthy[p]
    /\ bars[p] = NoBar

C5_Done(a, b, n) ==
    /\ wins[a] = n + 1
    /\ C5_Restored(a) /\ C5_Restored(b)
    /\ \A i \in BarIds : barObj[i] = DeadBar
    /\ ~keepInventory

C6_Ends(a, b) ==
    /\ vars' # vars
    /\ last'.op \in {"retry", "quit", "forceend"}
    /\ last'.did \in {"end_duel", "end_duel_disconnect"}
    /\ {last'.p, last'.q} = {a, b}

C6_Untouched(p) ==
    /\ duels'[p] = duels[p]
    /\ inventories'[p] = inventories[p] /\ locations'[p] = locations[p]
    /\ bars'[p] = bars[p]
    /\ bars[p] # NoBar => barObj'[bars[p]] = barObj[bars[p]]

C6_ConcurrentIsolation ==
    [][\A a, b, c, d \in Players :
          (/\ Cardinality({a, b, c, d}) = 4
           /\ duels[a] = b /\ duels[b] = a /\ duels[c] = d /\ duels[d] = c
           /\ C6_Ends(a, b))
          => (C6_Untouched(c) /\ C6_Untouched(d) /\ keepInventory')]_vars

\* C6 witness: the quit handler has just ended one duel by forfeit while
\* the other pair is still registered, with its snapshots and its bar.
C6_Witness ==
    \E a, b, c, d \in Players :
        /\ Cardinality({a, b, c, d}) = 4
        /\ last = Did("quit", b, a, "end_duel_disconnect")
        /\ duels[a] = None /\ duels[b] = None
        /\ duels[c] = d /\ duels[d] = c
        /\ inventories[c] # NoSnap /\ inventories[d] # NoSnap
        /\ bars[c] # NoBar /\ bars[c] = bars[d] /\ barObj[bars[c]].visible
        /\ keepInventory

\* C7: after every handler and scheduled callback, the keep-inventory rule
\* is on if and only if the duel registry is non-empty.
C7_RuleTracksRegistry ==
    keepInventory <=> (\E p \in Players : duels[p] # None)

\* C8: when b quits while registered as duelling a and a is resolvable, the
\* quit handler itself removes both from the registry, adds exactly one win
\* to a, applies the rating update with a as winner and b as loser to their
\* two ratings, restores a's inventory, location and health, removes a's
\* snapshot entry and keeps b's.
C8_ForfeitOnDisconnect ==
    [][\A a, b \in Players :
          (Ran("quit") /\ last' = Did("quit", b, a, "end_duel_disconnect"))
          => (/\ duels'[a] = None /\ duels'[b] = None
              /\ wins'[a] = wins[a] + 1
              /\ <<elo'[a], elo'[b]>> = UpdateElo(elo[a], elo[b])
              /\ inventories[a] # NoSnap => inv'[a] = inventories[a]
              /\ locations[a] # None => loc'[a] = locations[a]
              /\ healthy'[a]
              /\ inventories'[a] = NoSnap /\ locations'[a] = None
              /\ inventories'[b] = inventories[b]
              /\ locations'[b] = locations[b])]_vars

\* C9: when p joins and a snapshot entry exists for p, the join handler
\* gives p the saved inventory and the saved location, heals p, removes both
\* parts of the entry and changes no registry entry, win counter or rating;
\* when no entry exists the join handler changes nothing.
C9_RestoreOnRejoin ==
    [][\A p \in Players :
          (Ran("join") /\ last'.p = p)
          => /\ UNCHANGED <<duels, wins, elo, eloName>>
             /\ IF inventories[p] # NoSnap
                THEN /\ inv'[p] = inventories[p]
                     /\ loc'[p] = locations[p]
                     /\ healthy'[p]
                     /\ inventories'[p] = NoSnap /\ locations'[p] = None
                ELSE UNCHANGED <<pending, duels, inventories, locations, bars,
                                 barObj, wins, elo, eloName, keepInventory,
                                 inv, loc, healthy, tasks>>]_vars

\* C9 witness: p has rejoined with a snapshot entry pending and is back at
\* home with the pre-duel inventory, the entry gone.
C9_Witness ==
    \E p \in Players :
        /\ last = Did("join", p, None, "restored")
        /\ inv[p] = HomeInventory /\ loc[p] = Home /\ healthy[p]
        /\ inventories[p] = NoSnap /\ locations[p] = None

\* C10: accepting a pending challenge never starts a duel on a player who is
\* already a registry key or already has a snapshot entry.
C10_StartDuelOnlyIdle ==
    [][\A c, p \in Players :
          (Ran("accept") /\ last'.p = c /\ last'.q = p)
          => (/\ duels[c] = None /\ duels[p] = None
              /\ inventories[c] = NoSnap /\ inventories[p] = NoSnap)]_vars

\* C11: a scheduled resolution whose winner or loser does not resolve makes
\* a bounded number of attempts: every task carries a remaining count in
\* 0..5, a failed attempt with a positive count schedules exactly one more
\* attempt with the count one lower, a failed attempt with count zero
\* schedules nothing, and no failed attempt changes the registry, the
\* snapshots, the bars, the win counters or the ratings.
C11_Attempt == CHOOSE i \in 1..Len(tasks) : Runnable(i) /\ tasks[i].kind = "retry"

C11_FailedAttempt ==
    /\ Ran("retry")
    /\ last'.did \in {"retrying", "abandoned"}

C11_BoundedRetry ==
    /\ [](\A i \in 1..Len(tasks) :
             tasks[i].kind = "retry" => tasks[i].rem \in 0..RetryBudget)
    /\ [][C11_FailedAttempt =>
             LET t == tasks[C11_Attempt]
                 q == Without(tasks, C11_Attempt)
             IN  /\ UNCHANGED <<duels, inventories, locations, bars, barObj,
                                wins, elo, eloName, keepInventory>>
                 /\ last'.did = (IF t.rem > 0 THEN "retrying" ELSE "abandoned")
                 /\ IF t.rem > 0
                    THEN /\ Len(tasks') = Len(tasks)
                         /\ SubSeq(tasks', 1, Len(q)) = q
                         /\ tasks'[Len(tasks')].kind = "retry"
                         /\ tasks'[Len(tasks')].p = t.p
                         /\ tasks'[Len(tasks')].q = t.q
                         /\ tasks'[Len(tasks')].rem = t.rem - 1
                    ELSE tasks' = q]_vars

\* C11 witness: a resolution has just been abandoned after its last
\* attempt; the pair is still registered with its snapshots, no win or
\* rating was recorded and no attempt for the pair is left in the queue.
C11_Witness ==
    \E w, l \in Players :
        /\ last = Did("retry", w, l, "abandoned")
        /\ duels[w] = l /\ duels[l] = w
        /\ inventories[w] # NoSnap /\ inventories[l] # NoSnap
        /\ wins[w] = 0 /\ elo[w] = Unset /\ elo[l] = Unset
        /\ \A i \in 1..Len(tasks) : tasks[i].kind # "retry"

\* A step of one of the death handlers for victim v with killer k.
DeathSignal(v, k) ==
    /\ vars' # vars
    /\ last'.op \in {"player_death", "actor_death", "actor_death_only"}
    /\ last'.p = v /\ last'.q = k

\* C12: a death signal whose killer k is a player with registry[k] other
\* than the victim v (k not duelling, k duelling someone else, v duelling a
\* third player) changes no registry entry, snapshot, bar, win counter or
\* rating and schedules no resolution.
C12_MismatchNoMutation ==
    [][\A v, k \in Players :
          (DeathSignal(v, k) /\ duels[k] # v)
          => UNCHANGED <<duels, inventories, locations, bars, barObj, wins,
                         elo, eloName, keepInventory, tasks>>]_vars

\* C12 witness: on_player_death has just handled the kill of a duellist by
\* a bystander: nothing was scheduled and the duel stands.
C12_Witness ==
    \E v, k \in Players :
        /\ last = Did("player_death", v, k, "mismatch")
        /\ duels[v] # None /\ duels[v] # k /\ duels[k] = None
        /\ inventories[v] # NoSnap /\ bars[v] # NoBar
        /\ tasks = <<>>

\* C13: every death signal of v with no player killer while v is a registry
\* key schedules the resolution with registry[v] as winner and v as loser,
\* with the full retry budget, whether or not the opponent's handle
\* resolves at that moment.
C13_EnvironmentalDeathForfeits ==
    [][\A v \in Players :
          (DeathSignal(v, None) /\ duels[v] # None)
          => tasks' = Append(tasks, RetryTask(duels[v], v, RetryBudget))]_vars

\* C14: a snapshot entry exists for p exactly while p has an unrestored
\* pre-duel state pending: every registry key has one, no connected player
\* who is not a registry key has one (an entry without a registration
\* belongs to a player who disconnected and has not rejoined), and the
\* inventory part and the location part exist together.
C14_SnapshotEntries ==
    \A p \in Players :
        /\ (inventories[p] # NoSnap) <=> (locations[p] # None)
        /\ duels[p] # None => inventories[p] # NoSnap
        /\ (p \in online /\ duels[p] = None) => inventories[p] = NoSnap

\* Something is still to restore p: p is duelling, p has a snapshot entry,
\* or a finish_restore with a live handle of p is scheduled.
C15_RestorePending(p) ==
    \/ duels[p] # None
    \/ inventories[p] # NoSnap
    \/ \E i \in 1..Len(tasks) :
          tasks[i].kind = "restore" /\ tasks[i].p = p /\ ~tasks[i].stale

\* C15: every participant of a resolved duel ends at the pre-duel location,
\* also after disconnecting between _end_duel and the delayed
\* teleport-and-heal step and rejoining: a connected player for whom
\* nothing is left to restore is at home (the inventory is given back by
\* _end_duel itself).
C15_EveryDuelEndsRestored ==
    \A p \in online : ~C15_RestorePending(p) => loc[p] = Home

\* C20: a player has a bar entry if and only if the player is a registry
\* key, the two players of a registered pair have the same bar, and that
\* bar has both of them attached.
C20_BarEntries ==
    \A p \in Players :
        /\ (bars[p] # NoBar) <=> (duels[p] # None)
        /\ (duels[p] # None /\ duels[duels[p]] = p)
              => (/\ bars[p] = bars[duels[p]]
                  /\ bars[p] # NoBar => {p, duels[p]} \subseteq barObj[bars[p]].players)

\* C19: a forceend by a requester who is not a registry key, or whose
\* registered opponent does not resolve, changes no registry entry,
\* snapshot, bar, win counter or rating (nor anything else of the duel
\* state); a forceend by a requester paired with a resolvable opponent ends
\* the duel in the same step with the requester as winner and the opponent
\* as loser, and schedules the two delayed restores and no retry.
C19_ForceEnd ==
    [][\A p \in Players :
          (Ran("forceend") /\ last'.p = p)
          => IF duels[p] = None \/ GetPlayer(duels[p]) = None
             THEN UNCHANGED <<pending, duels, inventories, locations, bars,
                              barObj, wins, elo, eloName, keepInventory, inv,
                              loc, healthy, tasks>>
             ELSE /\ wins'[p] = wins[p] + 1
                  /\ \A x \in Players \ {p} : wins'[x] = wins[x]
                  /\ <<elo'[p], elo'[duels[p]]>> = UpdateElo(elo[p], elo[duels[p]])
                  /\ duels'[p] = None /\ duels'[duels[p]] = None
                  /\ inventories'[p] = NoSnap /\ inventories'[duels[p]] = NoSnap
                  /\ Len(tasks') = Len(tasks) + 2
                  /\ SubSeq(tasks', 1, Len(tasks)) = tasks
                  /\ tasks'[Len(tasks) + 1].kind = "restore"
                  /\ tasks'[Len(tasks) + 1].p = p
                  /\ tasks'[Len(tasks) + 2].kind = "restore"
                  /\ tasks'[Len(tasks) + 2].p = duels[p]]_vars

\* C19 witness: a requester paired with a resolvable opponent has just
\* forced the end: one win, both unregistered, two restores scheduled.
C19_Witness ==
    \E p, o \in Players :
        /\ last = Did("forceend", p, o, "end_duel")
        /\ wins[p] = 1 /\ wins[o] = 0
        /\ elo[p] = 1016 /\ elo[o] = 984
        /\ duels[p] = None /\ duels[o] = None
        /\ Len(tasks) = 2 /\ tasks[1].kind = "restore" /\ tasks[2].kind = "restore"

\* A step in which _end_duel applies _update_elo to winner w and loser l.
EloUpdated(w, l) ==
    /\ vars' # vars
    /\ last' = Did("forceend", w, l, "end_duel")

\* C16 as stated: update(1000, 1000) = (1016, 984), update(1200, 1000) =
\* (1212, 988), and a player with no recorded rating counts as rated 1000.
C16_FixturesAsStated ==
    [][\A w, l \in Players :
          EloUpdated(w, l)
          => /\ (elo[w] \in {Unset, 1000} /\ elo[l] \in {Unset, 1000})
                   => <<elo'[w], elo'[l]>> = <<1016, 984>>
             /\ (elo[w] = 1200 /\ elo[l] \in {Unset, 1000})
                   => <<elo'[w], elo'[l]>> = <<1212, 988>>]_vars

\* C16: update(1000, 1000) = (1016, 984), update(1200, 1000) = (1208, 992),
\* and a player with no recorded rating counts as rated 1000.
C16_Fixtures ==
    [][\A w, l \in Players :
          EloUpdated(w, l)
          => /\ (elo[w] \in {Unset, 1000} /\ elo[l] \in {Unset, 1000})
                   => <<elo'[w], elo'[l]>> = <<1016, 984>>
             /\ (elo[w] = 1200 /\ elo[l] \in {Unset, 1000})
                   => <<elo'[w], elo'[l]>> = <<1208, 992>>]_vars

\* C16 witness: the winner rated 1200 has beaten a loser with no recorded
\* rating.
C16_Witness ==
    /\ last = Did("forceend", "A", "B", "end_duel")
    /\ elo["A"] = 1208 /\ elo["B"] = 992
    /\ wins["A"] = 1

\* C17: for the ratings (W, L) at the start of a resolution, the update
\* gives (W', L') with W' - W = L - L', W' >= W, L' <= L and the gain in
\* 0..32.
C17_Complementary ==
    [][\A w, l \in Players :
          EloUpdated(w, l)
          => LET W == IF elo[w] = Unset THEN DefaultElo ELSE elo[w]
                 L == IF elo[l] = Unset THEN DefaultElo ELSE elo[l]
             IN  /\ elo'[w] - W = L - elo'[l]
                 /\ elo'[w] >= W /\ elo'[l] <= L
                 /\ elo'[w] - W \in 0..KFactor]_vars

\* C17 witness: a loser rated far above the winner has lost the whole of k,
\* and the winner has gained it.
C17_Witness ==
    /\ last = Did("forceend", "A", "B", "end_duel")
    /\ elo["A"] = DefaultElo + KFactor
    /\ elo["B"] = MaxRating - KFactor

\* Nothing of a snapshot of p is left to restore: p is connected, is not
\* duelling, has no entry and no finish_restore scheduled.
C18_Settled(p) ==
    /\ p \in online
    /\ duels[p] = None
    /\ inventories[p] = NoSnap /\ locations[p] = None
    /\ \A i \in 1..Len(tasks) : ~(tasks[i].kind = "restore" /\ tasks[i].p = p)

\* C18: for every inventory I (slots, some empty) and place L a player has
\* when the duel starts, the snapshot saved by _start_duel is I and L, and
\* once it is restored (at the duel's end or on join) the player has
\* exactly I, slot by slot, and is at L; no entry remains for a connected
\* player who is not duelling, and a join with no entry changes nothing.
C18_SnapshotRoundTrip ==
    /\ \A p \in {"A", "B"} : \A I \in Inventories : \A L \in Places :
          (inv[p] = I /\ loc[p] = L)
             => [](/\ inventories[p] # NoSnap => inventories[p] = I
                   /\ locations[p] # None => locations[p] = L
                   /\ C18_Settled(p) => (inv[p] = I /\ loc[p] = L))
    /\ [](\A p \in online : duels[p] = None => inventories[p] = NoSnap)
    /\ [][\A p \in Players :
             (Ran("join") /\ last' = Did("join", p, None, "none"))
             => UNCHANGED <<inv, loc, healthy, inventories, locations>>]_vars

\* C18 witness: the loser of a duel that was ended by forceend has been
\* through the delayed restore and is at the camp carrying an apple and a
\* sword, no entry left.
C18_Witness ==
    \E p \in {"A", "B"} :
        /\ last = Did("restore", p, None, "teleported")
        /\ wins[p] = 0 /\ \E o \in Players : wins[o] = 1
        /\ C18_Settled(p)
        /\ inv[p] = <<"apple", "sword">> /\ loc[p] = Camp

\* C21: the delayed teleport-and-heal step that _end_duel schedules for a
\* player never runs on a player who is then a registry key of a later
\* duel, and the snapshot saved when a later duel starts between two idle
\* players never records the arena as a player's pre-duel location.
C21_RestoreSparesNewerDuel ==
    [][/\ \A p \in Players :
             (Ran("restore") /\ last'.p = p /\ last'.did # "stale")
             => duels[p] = None
       /\ \A c, p \in Players :
             (/\ Ran("accept") /\ last'.p = c /\ last'.q = p
              /\ duels[c] = None /\ duels[p] = None
              /\ inventories[c] = NoSnap /\ inventories[p] = NoSnap)
             => (locations'[c] # Arena /\ locations'[p] # Arena)]_vars

\* C22: when b forfeits to a by disconnecting, the rating decrease is
\* written to the elo_rating entry of player b, the entry that _end_duel
\* and later rating reads use for b, and to no other entry for b: after
\* the forfeit b's entry holds b's rating less the loss against a.
C22_ForfeitUpdatesLoserEntry ==
    [][\A a, b \in Players :
          (Ran("quit") /\ last' = Did("quit", b, a, "end_duel_disconnect"))
          => (/\ elo'[b] # Unset
              /\ elo'[b] = Rated(elo[b]) - Loss(Rated(elo[b]) - Rated(elo[a]))
              /\ eloName' = eloName)]_vars

====
